---- MODULE Spec2Model ----
(***************************************************************************)
(* Upload & mapping wizard of actuary-frontend.                            *)
(*                                                                         *)
(*   UploadWizard         step state machine, file uploads, status display *)
(*   SimpleMappingWizard  dropdown mapping of required canonical fields    *)
(*   MappingWizard        drag-and-drop grid mapping of detected columns     *)
(*   apiService           uploadFiles / detectFields / submitMapping /     *)
(*                        getStatus / pollStatus                           *)
(*                                                                         *)
(* Every handler is one action.  An async handler is cut at its awaits:    *)
(* the synchronous part up to the first await is one action, and each      *)
(* completion of an awaited remote call (with the continuation that runs   *)
(* after it) is another.  React state is the set of variables; a closure   *)
(* that outlives a render keeps the values it captured in the record of    *)
(* the task that owns it.                                                  *)
(***************************************************************************)
EXTENDS Integers, Sequences, FiniteSets, TLC

\* ------------------------------------------------------------------ bounds
MaxUploads == 2      \* handleFileUpload calls that pass the extension check
MaxEdits   == 1      \* dropdown selections made by the user
MaxGridEdits == 2    \* drops and removals made by the user in the grid
MaxGridSubmits == 1  \* handleSubmit calls of the grid that dispatch requests
MaxSubmits == 2      \* handleSubmit calls that dispatch requests
MaxTimers  == 1      \* expiries of the 2000 ms poll timer, over all poll loops

\* --------------------------------------------------------------- constants
Null == 0                            \* uploadId: null (upload ids are 1, 2, ...)
NullString == "null"                 \* null in a string field (meta?.x ?? null)
Undefined == "undefined"             \* a missing key of a selection object
NullNumber == -1                     \* null in a numeric field (meta?.x ?? null)

FileTypes == {"policy", "claim", "cancel"}

\* Object.keys(filesByType): insertion order of the useMemo literal
FileTypeOrder == <<"policy", "claim", "cancel">>

REQUIRED_FIELDS ==
  [ policy |-> <<"policy_number", "effective_date", "expiration_date",
                 "premium_written", "product_type">>,
    claim  |-> <<"claim_number", "policy_number", "paid_date",
                 "report_date", "paid_amount">>,
    cancel |-> <<"policy_number", "cancel_date", "refund_premium">> ]

validExtensions == {".csv", ".xlsx", ".xls"}

\* file.name.toLowerCase().substring(file.name.lastIndexOf('.')) of the
\* file names the user may pick
FileNames == {"data.csv", "notes.txt"}

fileExtension(name) ==
  CASE name = "data.csv"  -> ".csv"
    [] name = "notes.txt" -> ".txt"

\* ------------------------------------------------- detectFields responses
\* populated_pct is kept in tenths of a percent, confidence in hundredths.
Sugg(src, canonical, pct, type, conf) ==
  [ source_field |-> src, suggested_canonical |-> canonical,
    populated_pct |-> pct, detected_type |-> type, confidence |-> conf ]

PolicyFull ==
  << Sugg("PolicyNo",    "policy_number",   998,  "string",  95),
     Sugg("StartDate",   "effective_date",  1000, "date",    92),
     Sugg("EndDate",     "expiration_date", 1000, "date",    92),
     Sugg("Premium",     "premium_written", 985,  "decimal", 88),
     Sugg("ProductType", "product_type",    952,  "string",  90),
     Sugg("Coverage",    "coverage_code",   873,  "string",  85) >>

\* the detector offers one source column for two canonical fields and takes
\* the product column for the coverage code (one selection repairs both)
PolicyDup ==
  << Sugg("PolicyNo",    "policy_number",   998,  "string",  95),
     Sugg("StartDate",   "effective_date",  1000, "date",    92),
     Sugg("EndDate",     "expiration_date", 1000, "date",    92),
     Sugg("Premium",     "premium_written", 985,  "decimal", 88),
     Sugg("PolicyNo",    "product_type",    998,  "string",  65),
     Sugg("ProductType", "coverage_code",   952,  "string",  70) >>

ClaimFull ==
  << Sugg("ClaimID",        "claim_number",  1000, "string",  98),
     Sugg("PolicyNumber",   "policy_number", 1000, "string",  95),
     Sugg("ReportedDate",   "report_date",   991,  "date",    90),
     Sugg("SettlementDate", "paid_date",     785,  "date",    85),
     Sugg("Amount",         "paid_amount",   892,  "decimal", 92) >>

CancelFull ==
  << Sugg("PolicyNo",     "policy_number",  1000, "string",  95),
     Sugg("CancelDate",   "cancel_date",    1000, "date",    93),
     Sugg("RefundAmount", "refund_premium", 923,  "decimal", 88) >>

Detections(fileType) ==
  CASE fileType = "policy" -> {PolicyFull, PolicyDup}
    [] fileType = "claim"  -> {ClaimFull, << >>}
    [] fileType = "cancel" -> {CancelFull}

\* file types the user uploads
UploadTypes == {"policy", "claim"}

\* the server opens a new upload for every uploadFiles call: the upload_id of
\* the response to the call made for file n
ServerUploadId(n) == n

\* ------------------------------------------------------------------- state
VARIABLES
  currentStep,    \* UploadWizard: 'checklist' | 'upload' | 'mapping' | 'processing' | 'complete'
  uploadedFiles,  \* UploadWizard: sequence of UploadedFile
  uploadId,       \* UploadWizard: string | null
  jobStatuses,    \* UploadWizard: jobs of the last session seen by the poll observer
  overallStatus,  \* UploadWizard: overall of the last session seen by the poll observer
  toast,          \* title of the last toast shown
  nextId,         \* next fresh UploadedFile.id (Math.random ids are taken as distinct)
  uploads,        \* handleFileUpload calls suspended at an await
  selections,     \* SimpleMappingWizard: fileType -> picks (canonical, source), insertion order
  edits,          \* number of mapping edits made by the user so far
  fieldMappings,  \* MappingWizard: sequence of FieldMapping
  submits,        \* handleSubmit calls that dispatched requests, in call order
  polls           \* pollStatus loops, in start order

navVars    == <<currentStep, toast>>
fileVars   == <<uploadedFiles, uploadId, nextId, uploads>>
mapVars    == <<selections, edits, fieldMappings>>
statusVars == <<jobStatuses, overallStatus>>
vars == <<currentStep, uploadedFiles, uploadId, jobStatuses, overallStatus,
          toast, nextId, uploads, selections, edits, fieldMappings, submits, polls>>

\* ------------------------------------------------------------ UploadWizard
\* an upload that keeps the earlier file of the type in the list
AppendFile(prev, newFile) == Append(prev, newFile)

\* setUploadedFiles(prev => [...prev.filter(f => f.type !== fileType), newFile])
ReplaceFileOfType(prev, newFile) ==
  Append(SelectSeq(prev, LAMBDA f : f.type # newFile.type), newFile)

\* a status update that does not look at the file id
SetFileStatusOfAll(prev, id, status) ==
  [ i \in 1..Len(prev) |-> [prev[i] EXCEPT !.status = status] ]

\* setUploadedFiles(prev => prev.map(f => f.id === id ? {...f, status} : f))
SetFileStatus(prev, id, status) ==
  [ i \in 1..Len(prev) |->
      IF prev[i].id = id THEN [prev[i] EXCEPT !.status = status] ELSE prev[i] ]

\* setUploadedFiles(prev => prev.map(f => f.id === id
\*     ? {...f, status: 'completed', mappingSuggestions: detections} : f))
SetFileCompleted(prev, id, detections) ==
  [ i \in 1..Len(prev) |->
      IF prev[i].id = id
        THEN [prev[i] EXCEPT !.status = "completed", !.mappingSuggestions = detections]
        ELSE prev[i] ]

\* a guard that looks at the file type only
canProceedWithAnyPolicy(files) ==
  \E i \in 1..Len(files) : files[i].type = "policy"

canProceedToMapping(files) ==
  \E i \in 1..Len(files) : files[i].type = "policy" /\ files[i].status = "completed"

\* ----------------------------------------------------- SimpleMappingWizard
\* uploadedFiles.find(f => f.type === ft): the first file of the type, or none
HasFile(files, ft) == \E i \in 1..Len(files) : files[i].type = ft

filesByType(files, ft) ==
  files[CHOOSE i \in 1..Len(files) :
          /\ files[i].type = ft
          /\ \A j \in 1..(i - 1) : files[j].type # ft]

\* mappingSuggestions?.find(s => s.suggested_canonical === canonical)
HasSuggestionFor(suggs, canonical) ==
  \E i \in 1..Len(suggs) : suggs[i].suggested_canonical = canonical

SuggestionFor(suggs, canonical) ==
  suggs[CHOOSE i \in 1..Len(suggs) :
          /\ suggs[i].suggested_canonical = canonical
          /\ \A j \in 1..(i - 1) : suggs[j].suggested_canonical # canonical]

RECURSIVE InitialPicks(_, _, _)
\* req.forEach(canonical => { if (suggestion) init[ft][canonical] = suggestion.source_field })
InitialPicks(suggs, req, k) ==
  IF k > Len(req) THEN << >>
  ELSE IF HasSuggestionFor(suggs, req[k])
    THEN << [canonical |-> req[k],
             source |-> SuggestionFor(suggs, req[k]).source_field] >>
           \o InitialPicks(suggs, req, k + 1)
    ELSE InitialPicks(suggs, req, k + 1)

\* A file type without a file has no key; selections[ft] || {} reads it as {}.
initialSelections(files) ==
  [ ft \in FileTypes |->
      IF HasFile(files, ft)
        THEN InitialPicks(filesByType(files, ft).mappingSuggestions, REQUIRED_FIELDS[ft], 1)
        ELSE << >> ]

\* state of the wizard while it is not mounted
NoSelections == [ ft \in FileTypes |-> << >> ]

\* state of the grid wizard while it is not mounted
NoFieldMappings == << >>

\* picked[c]
Picked(picked, c) ==
  IF \E i \in 1..Len(picked) : picked[i].canonical = c
    THEN picked[CHOOSE i \in 1..Len(picked) : picked[i].canonical = c].source
    ELSE Undefined

\* { ...(prev[ft] || {}), [canonical]: val }: an existing key keeps its place
PutPick(picked, c, val) ==
  IF \E i \in 1..Len(picked) : picked[i].canonical = c
    THEN [ i \in 1..Len(picked) |->
             IF picked[i].canonical = c THEN [picked[i] EXCEPT !.source = val]
                                        ELSE picked[i] ]
    ELSE Append(picked, [canonical |-> c, source |-> val])

\* Array.from(new Set(file?.mappingSuggestions?.map(s => s.source_field) ?? []))
getSourceOptions(files, ft) ==
  IF HasFile(files, ft)
    THEN LET suggs == filesByType(files, ft).mappingSuggestions
         IN  { suggs[i].source_field : i \in 1..Len(suggs) }
    ELSE {}

\* sources already selected for another canonical of the same file
disabledSet(picked, canonical) ==
  { picked[i].source : i \in { j \in 1..Len(picked) : picked[j].canonical # canonical } }

Falsy(v) == v = Undefined \/ v = ""

\* Object.values(picked).filter(Boolean)
PickedValues(picked) ==
  LET kept == SelectSeq(picked, LAMBDA e : ~Falsy(e.source))
  IN  [ i \in 1..Len(kept) |-> kept[i].source ]

\* values.filter((v, i) => values.indexOf(v) !== i)
Dupes(values) ==
  LET idx == { i \in 1..Len(values) : \E j \in 1..(i - 1) : values[j] = values[i] }
  IN  { values[i] : i \in idx }

RECURSIVE RequiredErrors(_, _, _, _)
\* req.forEach(c => { if (!picked[c]) errors.push(`${ft}: map required field "${c}"`) })
RequiredErrors(ft, picked, req, k) ==
  IF k > Len(req) THEN << >>
  ELSE (IF Falsy(Picked(picked, req[k]))
          THEN << [kind |-> "required", fileType |-> ft, field |-> req[k]] >>
          ELSE << >>)
       \o RequiredErrors(ft, picked, req, k + 1)

\* the errors validate() pushes for one file type
ValidateType(files, sel, ft) ==
  IF ~HasFile(files, ft) THEN << >>
  ELSE RequiredErrors(ft, sel[ft], REQUIRED_FIELDS[ft], 1)
       \o (IF Dupes(PickedValues(sel[ft])) # {}
             THEN << [kind |-> "duplicate", fileType |-> ft,
                      field |-> Dupes(PickedValues(sel[ft]))] >>
             ELSE << >>)

validate(files, sel) ==
  ValidateType(files, sel, FileTypeOrder[1])
    \o ValidateType(files, sel, FileTypeOrder[2])
    \o ValidateType(files, sel, FileTypeOrder[3])

\* getSuggestionMeta(ft, sourceField): the first suggestion of the source, or none
HasMeta(files, ft, source) ==
  /\ HasFile(files, ft)
  /\ \E i \in 1..Len(filesByType(files, ft).mappingSuggestions) :
        filesByType(files, ft).mappingSuggestions[i].source_field = source

getSuggestionMeta(files, ft, source) ==
  LET suggs == filesByType(files, ft).mappingSuggestions
  IN  suggs[CHOOSE i \in 1..Len(suggs) :
              /\ suggs[i].source_field = source
              /\ \A j \in 1..(i - 1) : suggs[j].source_field # source]

\* mappingForType[source] = {canonical_field, populated_pct, detected_type, confidence}
MappingEntry(files, ft, e) ==
  IF HasMeta(files, ft, e.source)
    THEN LET meta == getSuggestionMeta(files, ft, e.source)
         IN  [ source |-> e.source, canonical_field |-> e.canonical,
               populated_pct |-> meta.populated_pct,
               detected_type |-> meta.detected_type,
               confidence |-> meta.confidence ]
    ELSE [ source |-> e.source, canonical_field |-> e.canonical,
           populated_pct |-> NullNumber, detected_type |-> NullString, confidence |-> NullNumber ]

\* obj[key] = value on an object kept as a sequence of entries in key order
PutEntry(obj, entry) ==
  IF \E i \in 1..Len(obj) : obj[i].source = entry.source
    THEN [ i \in 1..Len(obj) |-> IF obj[i].source = entry.source THEN entry ELSE obj[i] ]
    ELSE Append(obj, entry)

RECURSIVE mappingForType(_, _, _, _)
\* Object.entries(picked).forEach(([canonical, source]) => { if (!source) return; ... })
mappingForType(files, ft, picked, k) ==
  IF k = 0 THEN << >>
  ELSE IF Falsy(picked[k].source)
    THEN mappingForType(files, ft, picked, k - 1)
    ELSE PutEntry(mappingForType(files, ft, picked, k - 1),
                  MappingEntry(files, ft, picked[k]))

\* grouped[ft], for the file types that have a file
grouped(files, sel) ==
  [ ft \in { t \in FileTypes : HasFile(files, t) } |->
      mappingForType(files, ft, sel[ft], Len(sel[ft])) ]

\* a dispatch that sends the policy mapping only
DispatchedPolicyOnly(g) == { ft \in DOMAIN g : Len(g[ft]) > 0 /\ ft = "policy" }

\* Object.keys(grouped).filter(ft => Object.keys(grouped[ft]).length > 0)
DispatchedTypes(g) == { ft \in DOMAIN g : Len(g[ft]) > 0 }

RECURSIVE FlattenInto(_, _, _, _)
\* Object.entries(grouped[ft]).forEach(([source, details]) =>
\*     { finalMappings[source] = { ...details, file_type: ft } })
FlattenInto(acc, entries, ft, k) ==
  IF k = 0 THEN acc
  ELSE PutEntry(FlattenInto(acc, entries, ft, k - 1),
                [ source |-> entries[k].source,
                  canonical_field |-> entries[k].canonical_field,
                  populated_pct |-> entries[k].populated_pct,
                  detected_type |-> entries[k].detected_type,
                  confidence |-> entries[k].confidence,
                  file_type |-> ft ])

FlattenKey(acc, g, ft) ==
  IF ft \in DOMAIN g THEN FlattenInto(acc, g[ft], ft, Len(g[ft])) ELSE acc

\* finalMappings, built after the await from the grouped object of the call
finalMappings(g) ==
  FlattenKey(FlattenKey(FlattenKey(<< >>, g, FileTypeOrder[1]), g, FileTypeOrder[2]),
             g, FileTypeOrder[3])

\* a continuation that builds the grouped object again from the current state
GroupedReadAtCompletion(s, files, sel) == grouped(files, sel)

\* the grouped object the continuation of handleSubmit flattens: the const of
\* the call that dispatched the requests
GroupedAtCompletion(s, files, sel) == s.grouped

\* a catch block that runs for every rejected request
SurfacedErrorOfLast(s, ft) == ft

\* the error the catch block shows: Promise.all rejects with the first
\* rejection, later settlements are ignored
SurfacedError(s, ft) == IF s.state = "awaiting" THEN ft ELSE s.error

\* handleSubmit without its early returns
SubmitNeverBlockedByValidation(errors) == FALSE
SubmitNeverBlockedByUploadId(id) == FALSE

\* the two early returns of handleSubmit
SubmitBlockedByValidation(errors) == Len(errors) > 0
SubmitBlockedByUploadId(id) == id = Null

\* a continuation that runs as soon as one request has resolved
AnyResolved(requests) == \E ft \in DOMAIN requests : requests[ft] = "ok"

\* await Promise.all(promises) resolves
AllResolved(requests) == \A ft \in DOMAIN requests : requests[ft] = "ok"

\* ----------------------------------------------------------- MappingWizard
requiredFields ==
  [ policy |-> <<"policy_number", "effective_date", "expiration_date",
                 "premium_written", "product_type">>,
    claim  |-> <<"claim_number", "policy_number", "paid_date",
                 "report_date", "paid_amount">>,
    cancel |-> <<"policy_number", "cancel_date", "refund_premium">> ]

Pill(id, name, type, required, fileType) ==
  [ id |-> id, name |-> name, type |-> type, required |-> required, fileType |-> fileType ]

allCanonicalFields ==
  << Pill("policy_number_p",      "policy_number",        "string",  TRUE,  "policy"),
     Pill("effective_date",       "effective_date",       "date",    TRUE,  "policy"),
     Pill("expiration_date",      "expiration_date",      "date",    TRUE,  "policy"),
     Pill("premium_written",      "premium_written",      "decimal", TRUE,  "policy"),
     Pill("product_type",         "product_type",         "string",  TRUE,  "policy"),
     Pill("coverage_code",        "coverage_code",        "string",  FALSE, "policy"),
     Pill("coverage_term_months", "coverage_term_months", "integer", FALSE, "policy"),
     Pill("status",               "status",               "enum",    FALSE, "policy"),
     Pill("claim_number",         "claim_number",         "string",  TRUE,  "claim"),
     Pill("policy_number_c",      "policy_number",        "string",  TRUE,  "claim"),
     Pill("paid_date",            "paid_date",            "date",    TRUE,  "claim"),
     Pill("report_date",          "report_date",          "date",    TRUE,  "claim"),
     Pill("paid_amount",          "paid_amount",          "decimal", TRUE,  "claim"),
     Pill("claim_resolution",     "claim_resolution",     "string",  FALSE, "claim"),
     Pill("policy_number_cancel", "policy_number",        "string",  TRUE,  "cancel"),
     Pill("cancel_date",          "cancel_date",          "date",    TRUE,  "cancel"),
     Pill("refund_premium",       "refund_premium",       "decimal", TRUE,  "cancel") >>

\* requiredFields[file.type]?.includes(canonical) || false
Includes(seq, v) == \E i \in 1..Len(seq) : seq[i] = v

\* one FieldMapping per suggestion of a file
MappingOfSuggestion(file, s) ==
  [ sourceField |-> s.source_field,
    canonicalField |-> s.suggested_canonical,
    fileType |-> file.type,
    populated_pct |-> s.populated_pct,
    detected_type |-> s.detected_type,
    confidence |-> s.confidence,
    required |-> Includes(requiredFields[file.type], s.suggested_canonical) ]

RECURSIVE initialFieldMappings(_, _)
\* useState(() => { uploadedFiles.forEach(file => file.mappingSuggestions.forEach(push)) })
initialFieldMappings(files, k) ==
  IF k = 0 THEN << >>
  ELSE initialFieldMappings(files, k - 1)
       \o [ i \in 1..Len(files[k].mappingSuggestions) |->
              MappingOfSuggestion(files[k], files[k].mappingSuggestions[i]) ]

\* allCanonicalFields.filter(field => fileTypes.includes(field.fileType))
availableFields(files) ==
  SelectSeq(allCanonicalFields, LAMBDA f : HasFile(files, f.fileType))

\* availableFields.find(f => f.id === active.id)
HasActiveField(files, activeId) ==
  LET av == availableFields(files)
  IN  \E i \in 1..Len(av) : av[i].id = activeId

activeFieldOf(files, activeId) ==
  LET av == availableFields(files)
  IN  av[CHOOSE i \in 1..Len(av) : av[i].id = activeId]

\* a reduce that copies every mapping, mapped or not
IsMappedOrNull(m) == TRUE

\* truthiness of mapping.canonicalField (string | null)
IsMapped(m) == m.canonicalField # NullString /\ m.canonicalField # ""

\* a drop that clears a mapping which already holds the dropped field
AssignToggling(prev, targetSourceField, name) ==
  [ i \in 1..Len(prev) |->
      IF prev[i].sourceField = targetSourceField
        THEN [prev[i] EXCEPT !.canonicalField =
                IF @ = name THEN NullString ELSE name]
        ELSE prev[i] ]

\* setFieldMappings(prev => prev.map(mapping => mapping.sourceField === target
\*     ? { ...mapping, canonicalField: activeField.name } : mapping))
Assign(prev, targetSourceField, name) ==
  [ i \in 1..Len(prev) |->
      IF prev[i].sourceField = targetSourceField
        THEN [prev[i] EXCEPT !.canonicalField = name]
        ELSE prev[i] ]

\* setFieldMappings(prev => prev.map(mapping => mapping.sourceField === sourceField
\*     ? { ...mapping, canonicalField: null } : mapping))
Unassign(prev, sourceField) ==
  [ i \in 1..Len(prev) |->
      IF prev[i].sourceField = sourceField
        THEN [prev[i] EXCEPT !.canonicalField = NullString]
        ELSE prev[i] ]

\* getMappedField(sourceField) is not null/undefined: the first mapping of the
\* source holds a field that has a pill
HasMappedField(files, fm, sourceField) ==
  /\ \E i \in 1..Len(fm) : fm[i].sourceField = sourceField
  /\ LET first == CHOOSE i \in 1..Len(fm) :
                    /\ fm[i].sourceField = sourceField
                    /\ \A j \in 1..(i - 1) : fm[j].sourceField # sourceField
     IN  /\ IsMapped(fm[first])
         /\ \E p \in 1..Len(availableFields(files)) :
              availableFields(files)[p].name = fm[first].canonicalField

\* fieldMappings.some(m => m.fileType === file.type && m.canonicalField === requiredField)
IsHeld(fm, fileType, requiredField) ==
  \E i \in 1..Len(fm) : fm[i].fileType = fileType /\ fm[i].canonicalField = requiredField

RequiredMessage(requiredField, fileType) ==
  "Required field \"" \o requiredField \o "\" not mapped in " \o fileType \o " file"

RECURSIVE FileRequiredErrors(_, _, _, _)
\* fileRequiredFields.forEach(requiredField => { if (!isMapped) errors.push(...) })
FileRequiredErrors(fm, fileType, req, k) ==
  IF k = 0 THEN << >>
  ELSE FileRequiredErrors(fm, fileType, req, k - 1)
       \o (IF IsHeld(fm, fileType, req[k])
             THEN << >>
             ELSE << RequiredMessage(req[k], fileType) >>)

RECURSIVE AllRequiredErrors(_, _, _)
\* uploadedFiles.forEach(file => ...)
AllRequiredErrors(files, fm, k) ==
  IF k = 0 THEN << >>
  ELSE AllRequiredErrors(files, fm, k - 1)
       \o FileRequiredErrors(fm, files[k].type, requiredFields[files[k].type],
                             Len(requiredFields[files[k].type]))

\* `${m.fileType}_${m.canonicalField}`
MappedKey(m) == m.fileType \o "_" \o m.canonicalField

\* fieldMappings.filter(m => m.canonicalField).map(m => key)
mappedFields(fm) ==
  LET kept == SelectSeq(fm, IsMapped)
  IN  [ i \in 1..Len(kept) |-> MappedKey(kept[i]) ]

\* mappedFields.filter((field, index) => mappedFields.indexOf(field) !== index)
duplicates(keys) ==
  LET idx == { i \in 1..Len(keys) : \E j \in 1..(i - 1) : keys[j] = keys[i] }
      kept(i) == Cardinality({ j \in idx : j <= i })
  IN  [ n \in 1..Cardinality(idx) |->
          keys[CHOOSE i \in idx : kept(i) = n] ]

DuplicateMessage(duplicate) == "Duplicate mapping detected: " \o duplicate

WarningMessage(m) ==
  "Low confidence mapping for \"" \o m.sourceField \o "\" -> \"" \o m.canonicalField \o "\""

\* a confidence check that also warns at the threshold
LowConfidenceInclusive(m) == IsMapped(m) /\ m.confidence <= 70

\* mapping.canonicalField && mapping.confidence < 0.7 (confidence in hundredths)
LowConfidence(m) == IsMapped(m) /\ m.confidence < 70

\* a duplicate check that reports every duplicated key once
DuplicateErrorsOnce(fm) ==
  LET d == duplicates(mappedFields(fm))
      firsts == SelectSeq([ i \in 1..Len(d) |-> [key |-> d[i], n |-> i] ],
                          LAMBDA e : \A j \in 1..(e.n - 1) : d[j] # e.key)
  IN  [ i \in 1..Len(firsts) |-> DuplicateMessage(firsts[i].key) ]

\* duplicates.forEach(duplicate => errors.push(...))
DuplicateErrors(fm) ==
  LET d == duplicates(mappedFields(fm))
  IN  [ i \in 1..Len(d) |-> DuplicateMessage(d[i]) ]

\* a required-field check that looks at the first uploaded file only
RequiredErrorsFirstFile(files, fm) ==
  AllRequiredErrors(files, fm, IF Len(files) > 0 THEN 1 ELSE 0)

\* the required-field check over every uploaded file
RequiredErrorsAllFiles(files, fm) == AllRequiredErrors(files, fm, Len(files))

\* a validity test that ignores duplicate errors
IsValidIgnoringDuplicates(files, fm, errors) ==
  Len(RequiredErrorsAllFiles(files, fm)) = 0

\* isValid: errors.length === 0
IsValid(files, fm, errors) == Len(errors) = 0

getValidationStatus(files, fm) ==
  LET errors == RequiredErrorsAllFiles(files, fm) \o DuplicateErrors(fm)
      low == SelectSeq(fm, LowConfidence)
  IN  [ errors |-> errors,
        warnings |-> [ i \in 1..Len(low) |-> WarningMessage(low[i]) ],
        isValid |-> IsValid(files, fm, errors) ]

\* the value written at acc[fileType][sourceField]
GroupedEntry(m) ==
  [ source |-> m.sourceField, canonical_field |-> m.canonicalField,
    populated_pct |-> m.populated_pct, detected_type |-> m.detected_type,
    confidence |-> m.confidence ]

RECURSIVE GroupInto(_, _, _)
\* fieldMappings.reduce((acc, mapping) => { if (mapping.canonicalField) acc[ft][source] = ... })
GroupInto(fm, ft, k) ==
  IF k = 0 THEN << >>
  ELSE IF fm[k].fileType = ft /\ IsMapped(fm[k])
    THEN PutEntry(GroupInto(fm, ft, k - 1), GroupedEntry(fm[k]))
    ELSE GroupInto(fm, ft, k - 1)

\* groupedMappings of handleSubmit: a key for every file type with a mapped field
groupedMappings(fm) ==
  [ ft \in { fm[i].fileType : i \in { j \in 1..Len(fm) : IsMapped(fm[j]) } } |->
      GroupInto(fm, ft, Len(fm)) ]

\* the value written at acc[sourceField]
FinalEntry(m) ==
  [ source |-> m.sourceField, canonical_field |-> m.canonicalField,
    populated_pct |-> m.populated_pct, detected_type |-> m.detected_type,
    confidence |-> m.confidence, file_type |-> m.fileType ]

RECURSIVE FinalInto(_, _)
\* finalMappings of handleSubmit: fieldMappings.reduce keyed by sourceField
FinalInto(fm, k) ==
  IF k = 0 THEN << >>
  ELSE IF IsMapped(fm[k])
    THEN PutEntry(FinalInto(fm, k - 1), FinalEntry(fm[k]))
    ELSE FinalInto(fm, k - 1)

\* ------------------------------------------------------------- apiService
Job(ft, status, progress) == [file_type |-> ft, status |-> status, progress |-> progress]

\* getStatus responses the server may give (progress in hundredths)
Sessions ==
  << [ jobs |-> << Job("policy", "done", 100), Job("claim", "running", 40) >>,
       overall |-> "running" ],
     [ jobs |-> << Job("policy", "done", 100), Job("claim", "done", 100) >>,
       overall |-> "done" ],
     [ jobs |-> << Job("policy", "done", 100), Job("claim", "failed", 40) >>,
       overall |-> "failed" ],
     [ jobs |-> << Job("policy", "done", 100), Job("claim", "running", 40) >>,
       overall |-> "done" ] >>

SessionIds == 1..Len(Sessions)

\* status.overall === 'done' || status.overall === 'failed'
IsTerminal(status) == status.overall = "done" \/ status.overall = "failed"

\* pollStatus(uploadId, onUpdate): poll() runs up to its await of getStatus
NewPoll(id) ==
  [ uploadId |-> id, pc |-> "fetching", issued |-> 1,
    fetched |-> << >>, updates |-> << >>, resolvedWith |-> 0, updatesAtResolve |-> 0 ]

\* a getStatus call that rejected, in the record of what a loop fetched
FetchError == 0

\* poll() that tests for the terminal session first and resolves without
\* telling the observer
PollAfterFetchSilentEnd(p, sid) ==
  LET got == [p EXCEPT !.fetched = Append(@, sid)]
  IN  IF IsTerminal(Sessions[sid])
        THEN [got EXCEPT !.pc = "resolved", !.resolvedWith = sid,
                         !.updatesAtResolve = Len(got.updates)]
        ELSE [got EXCEPT !.updates = Append(@, sid), !.pc = "timer"]

\* poll() that does not re-arm its timer after a non-terminal session
PollAfterFetchNoRearm(p, sid) ==
  LET seen == [p EXCEPT !.fetched = Append(@, sid), !.updates = Append(@, sid)]
  IN  IF IsTerminal(Sessions[sid])
        THEN [seen EXCEPT !.pc = "resolved", !.resolvedWith = sid,
                          !.updatesAtResolve = Len(seen.updates)]
        ELSE [seen EXCEPT !.pc = "idle"]

\* the body of poll() after getStatus resolved with Sessions[sid]:
\* onUpdate?.(status), then resolve(status) or setTimeout(poll, 2000)
PollAfterFetch(p, sid) ==
  LET seen == [p EXCEPT !.fetched = Append(@, sid), !.updates = Append(@, sid)]
  IN  IF IsTerminal(Sessions[sid])
        THEN [seen EXCEPT !.pc = "resolved", !.resolvedWith = sid,
                          !.updatesAtResolve = Len(seen.updates)]
        ELSE [seen EXCEPT !.pc = "timer"]

\* poll() that schedules another fetch after a failed one
PollRetryAfterError(p) ==
  [p EXCEPT !.fetched = Append(@, FetchError), !.pc = "timer"]

\* the body of poll() after getStatus rejected: reject(error)
PollAfterError(p) ==
  [p EXCEPT !.fetched = Append(@, FetchError), !.pc = "rejected"]

\* an observer that completes the wizard on any terminal session
StepAfterUpdateAnyTerminal(step, status) ==
  IF IsTerminal(status) THEN "complete" ELSE step

\* an observer that sends the user back to the mapping step on failure
StepAfterUpdateBackOnFailure(step, status) ==
  IF status.overall = "done" THEN "complete"
  ELSE IF status.overall = "failed" THEN "mapping"
  ELSE step

\* the observer passed by startStatusPolling: setCurrentStep
StepAfterUpdate(step, status) ==
  IF status.overall = "done" THEN "complete" ELSE step

\* the observer passed by startStatusPolling: toast
ToastAfterUpdate(last, status) ==
  IF status.overall = "done" THEN "Processing Complete"
  ELSE IF status.overall = "failed" THEN "Processing Failed"
  ELSE last

\* ------------------------------------------------------------------ Init
Init ==
  /\ currentStep = "checklist"
  /\ uploadedFiles = << >>
  /\ uploadId = Null
  /\ jobStatuses = << >>
  /\ overallStatus = "pending"
  /\ toast = "none"
  /\ nextId = 1
  /\ uploads = {}
  /\ selections = NoSelections
  /\ edits = 0
  /\ fieldMappings = NoFieldMappings
  /\ submits = << >>
  /\ polls = << >>

\* --------------------------------------------------- UploadWizard actions
\* 'Continue to Upload'
ContinueToUpload ==
  /\ currentStep = "checklist"
  /\ currentStep' = "upload"
  /\ UNCHANGED <<toast, fileVars, mapVars, statusVars, submits, polls>>

\* 'Back to Checklist'
BackToChecklist ==
  /\ currentStep = "upload"
  /\ currentStep' = "checklist"
  /\ UNCHANGED <<toast, fileVars, mapVars, statusVars, submits, polls>>

\* handleFileUpload up to its first await (FileUploadZone is rendered in the
\* upload step only; a DropZone calls it with a non-empty FileList)
HandleFileUpload(name, fileType) ==
  /\ currentStep = "upload"
  /\ IF fileExtension(name) \notin validExtensions
       THEN /\ toast' = "Invalid file type"
            /\ UNCHANGED <<currentStep, fileVars, mapVars, statusVars, submits, polls>>
       ELSE /\ nextId <= MaxUploads
            /\ LET newFile == [ id |-> nextId, name |-> name, type |-> fileType,
                                status |-> "pending", mappingSuggestions |-> << >> ]
               IN  /\ uploadedFiles' =
                        SetFileStatus(ReplaceFileOfType(uploadedFiles, newFile),
                                      newFile.id, "processing")
                   /\ uploads' = uploads \cup
                        { [ id |-> newFile.id, type |-> fileType,
                            first |-> (uploadId = Null),
                            pc |-> "uploadFiles", upload_id |-> Null ] }
            /\ nextId' = nextId + 1
            /\ UNCHANGED <<navVars, uploadId, mapVars, statusVars, submits, polls>>

\* apiService.uploadFiles resolved with {upload_id}
UploadFilesOk(t) ==
  /\ t \in uploads /\ t.pc = "uploadFiles"
  /\ uploadId' = IF t.first THEN ServerUploadId(t.id) ELSE uploadId
  /\ uploads' = (uploads \ {t}) \cup
       { [t EXCEPT !.pc = "detectFields", !.upload_id = ServerUploadId(t.id)] }
  /\ UNCHANGED <<navVars, uploadedFiles, nextId, mapVars, statusVars, submits, polls>>

\* apiService.detectFields resolved with detections
DetectFieldsOk(t, detections) ==
  /\ t \in uploads /\ t.pc = "detectFields"
  /\ uploadedFiles' = SetFileCompleted(uploadedFiles, t.id, detections)
  /\ uploads' = uploads \ {t}
  /\ toast' = "File uploaded successfully"
  /\ UNCHANGED <<currentStep, uploadId, nextId, mapVars, statusVars, submits, polls>>

\* apiService.uploadFiles or apiService.detectFields rejected: the catch block
UploadFailed(t) ==
  /\ t \in uploads
  /\ uploadedFiles' = SetFileStatus(uploadedFiles, t.id, "error")
  /\ uploads' = uploads \ {t}
  /\ toast' = "Upload failed"
  /\ UNCHANGED <<currentStep, uploadId, nextId, mapVars, statusVars, submits, polls>>

\* handleProceedToMapping; SimpleMappingWizard mounts with useState(initialSelections)
HandleProceedToMapping ==
  /\ currentStep = "upload"
  /\ IF ~canProceedToMapping(uploadedFiles)
       THEN /\ toast' = "Missing required files"
            /\ UNCHANGED <<currentStep, selections>>
       ELSE /\ currentStep' = "mapping"
            /\ selections' = initialSelections(uploadedFiles)
            /\ UNCHANGED toast
  /\ UNCHANGED <<fileVars, edits, fieldMappings, statusVars, submits, polls>>

\* onBack={() => setCurrentStep('upload')}; the wizard unmounts
OnBack ==
  /\ currentStep = "mapping"
  /\ currentStep' = "upload"
  /\ selections' = NoSelections
  /\ fieldMappings' = NoFieldMappings
  /\ UNCHANGED <<toast, fileVars, edits, statusVars, submits, polls>>

\* onComplete of UploadWizard, called with the uploadId its closure captured:
\* setCurrentStep('processing'); toast; if (uploadId) startStatusPolling(uploadId)
OnComplete(closureUploadId) ==
  /\ currentStep' = "processing"
  /\ toast' = "Mappings Saved"
  /\ selections' = NoSelections
  /\ fieldMappings' = NoFieldMappings
  /\ polls' = IF closureUploadId = Null
                THEN polls
                ELSE Append(polls, NewPoll(closureUploadId))

\* ---------------------------------------------- SimpleMappingWizard actions
\* onValueChange of the Select of (ft, canonical); disabled items cannot be chosen
SelectSource(ft, canonical, val) ==
  /\ currentStep = "mapping"
  /\ edits < MaxEdits
  /\ HasFile(uploadedFiles, ft)
  /\ val \in getSourceOptions(uploadedFiles, ft) \ disabledSet(selections[ft], canonical)
  /\ selections' = [selections EXCEPT ![ft] = PutPick(@, canonical, val)]
  /\ edits' = edits + 1
  /\ UNCHANGED <<navVars, fileVars, fieldMappings, statusVars, submits, polls>>

\* handleSubmit up to await Promise.all(promises); with no promise to await
\* the continuation runs at once
HandleSubmit ==
  /\ currentStep = "mapping"
  /\ IF SubmitBlockedByValidation(validate(uploadedFiles, selections))
       THEN /\ toast' = "Fix required mappings"
            /\ UNCHANGED <<currentStep, selections, fieldMappings, submits, polls>>
       ELSE IF SubmitBlockedByUploadId(uploadId)
         THEN /\ toast' = "Upload missing"
              /\ UNCHANGED <<currentStep, selections, fieldMappings, submits, polls>>
         ELSE /\ Len(submits) < MaxSubmits
              /\ LET g == grouped(uploadedFiles, selections)
                     s == [ by |-> "SimpleMappingWizard",
                            uploadId |-> uploadId, grouped |-> g,
                            errors |-> validate(uploadedFiles, selections),
                            requests |-> [ft \in DispatchedTypes(g) |-> "pending"],
                            state |-> "awaiting", error |-> NullString,
                            finalMappings |-> << >> ]
                 IN  IF DispatchedTypes(g) = {}
                       THEN /\ submits' = Append(submits,
                                  [s EXCEPT !.state = "completed",
                                            !.finalMappings = finalMappings(
                                               GroupedAtCompletion(s, uploadedFiles, selections))])
                            /\ OnComplete(s.uploadId)
                       ELSE /\ submits' = Append(submits, s)
                            /\ UNCHANGED <<currentStep, toast, selections, fieldMappings, polls>>
  /\ UNCHANGED <<fileVars, edits, statusVars>>

\* finalMappings as passed to onComplete: the dropdown wizard builds it in the
\* continuation, the grid wizard built it before the dispatch
FinalAtCompletion(s) ==
  IF s.by = "SimpleMappingWizard"
    THEN finalMappings(GroupedAtCompletion(s, uploadedFiles, selections))
    ELSE s.finalMappings

\* apiService.submitMapping of submit i for file type ft resolved; when it was
\* the last one, Promise.all resolves and the continuation calls onComplete.
\* Once Promise.all has rejected, the other requests of the submit still
\* settle, and nothing runs when they do.
SubmitMappingOk(i, ft) ==
  /\ i \in 1..Len(submits)
  /\ submits[i].state \in {"awaiting", "failed"}
  /\ ft \in DOMAIN submits[i].requests
  /\ submits[i].requests[ft] = "pending"
  /\ LET requests == [submits[i].requests EXCEPT ![ft] = "ok"]
     IN  IF submits[i].state = "awaiting" /\ AllResolved(requests)
           THEN /\ submits' = [submits EXCEPT ![i].requests = requests,
                                              ![i].state = "completed",
                                              ![i].finalMappings = FinalAtCompletion(submits[i])]
                /\ OnComplete(submits[i].uploadId)
           ELSE /\ submits' = [submits EXCEPT ![i].requests = requests]
                /\ UNCHANGED <<currentStep, toast, selections, fieldMappings, polls>>
  /\ UNCHANGED <<fileVars, edits, statusVars>>

\* apiService.submitMapping rejected; the first rejection rejects Promise.all
\* and runs the catch block
SubmitMappingFailed(i, ft) ==
  /\ i \in 1..Len(submits)
  /\ ft \in DOMAIN submits[i].requests
  /\ submits[i].state \in {"awaiting", "failed"}
  /\ submits[i].requests[ft] = "pending"
  /\ submits' = [submits EXCEPT ![i].requests[ft] = "rejected",
                                ![i].state = "failed",
                                ![i].error = SurfacedError(submits[i], ft)]
  /\ toast' = IF submits[i].state = "awaiting" THEN "Submission failed" ELSE toast
  /\ UNCHANGED <<currentStep, fileVars, mapVars, statusVars, polls>>

\* ---------------------------------------------------- MappingWizard actions
\* pills the user drags, and what a drag may end over
DraggedIds == {"policy_number_p", "coverage_code", "claim_number"}

NoOver == "null"

\* handleDragEnd({active, over}); over is null when the drag ends over nothing
HandleDragEnd(activeId, overId) ==
  /\ currentStep = "mapping"
  /\ IF overId = NoOver \/ overId = "" \/ ~HasActiveField(uploadedFiles, activeId)
       THEN UNCHANGED <<toast, fieldMappings, edits>>
       ELSE /\ edits < MaxGridEdits
            /\ fieldMappings' =
                 Assign(fieldMappings, overId, activeFieldOf(uploadedFiles, activeId).name)
            /\ toast' = "Field mapped"
            /\ edits' = edits + 1
  /\ UNCHANGED <<currentStep, fileVars, selections, statusVars, submits, polls>>

\* removeMapping(sourceField): the X of the pill shown in the drop zone
RemoveMapping(sourceField) ==
  /\ currentStep = "mapping"
  /\ edits < MaxGridEdits
  /\ HasMappedField(uploadedFiles, fieldMappings, sourceField)
  /\ fieldMappings' = Unassign(fieldMappings, sourceField)
  /\ edits' = edits + 1
  /\ UNCHANGED <<navVars, fileVars, selections, statusVars, submits, polls>>

\* handleSubmit of MappingWizard up to await Promise.all(submissionPromises)
MappingWizardHandleSubmit ==
  /\ currentStep = "mapping"
  /\ LET validationStatus == getValidationStatus(uploadedFiles, fieldMappings)
     IN  IF ~validationStatus.isValid
           THEN /\ toast' = "Validation Failed"
                /\ UNCHANGED <<currentStep, selections, fieldMappings, submits, polls>>
           ELSE IF uploadId = Null
             THEN /\ toast' = "Upload ID Missing"
                  /\ UNCHANGED <<currentStep, selections, fieldMappings, submits, polls>>
             ELSE /\ Len(submits) < MaxGridSubmits
                  /\ LET g == groupedMappings(fieldMappings)
                         s == [ by |-> "MappingWizard",
                                uploadId |-> uploadId, grouped |-> g,
                                errors |-> validationStatus.errors,
                                requests |-> [ft \in DOMAIN g |-> "pending"],
                                state |-> "awaiting", error |-> NullString,
                                finalMappings |-> FinalInto(fieldMappings, Len(fieldMappings)) ]
                     IN  IF DOMAIN g = {}
                           THEN /\ submits' = Append(submits, [s EXCEPT !.state = "completed"])
                                /\ OnComplete(s.uploadId)
                           ELSE /\ submits' = Append(submits, s)
                                /\ UNCHANGED <<currentStep, toast, selections,
                                               fieldMappings, polls>>
  /\ UNCHANGED <<fileVars, edits, statusVars>>

\* ------------------------------------------------------ pollStatus actions
\* getStatus of poll loop k resolved with Sessions[sid]
GetStatusOk(k, sid) ==
  /\ k \in 1..Len(polls)
  /\ polls[k].pc = "fetching"
  /\ polls' = [polls EXCEPT ![k] = PollAfterFetch(@, sid)]
  /\ IF Len(PollAfterFetch(polls[k], sid).updates) > Len(polls[k].updates)
       THEN /\ jobStatuses' = Sessions[sid].jobs
            /\ overallStatus' = Sessions[sid].overall
            /\ currentStep' = StepAfterUpdate(currentStep, Sessions[sid])
            /\ toast' = ToastAfterUpdate(toast, Sessions[sid])
       ELSE UNCHANGED <<currentStep, toast, statusVars>>
  /\ UNCHANGED <<fileVars, mapVars, submits>>

\* getStatus rejected: reject(error), and the catch of startStatusPolling
GetStatusFailed(k) ==
  /\ k \in 1..Len(polls)
  /\ polls[k].pc = "fetching"
  /\ polls' = [polls EXCEPT ![k] = PollAfterError(@)]
  /\ toast' = IF polls'[k].pc = "rejected" THEN "Status Check Failed" ELSE toast
  /\ UNCHANGED <<currentStep, fileVars, mapVars, statusVars, submits>>

RECURSIVE SumIssued(_)
SumIssued(k) == IF k = 0 THEN 0 ELSE polls[k].issued + SumIssued(k - 1)

\* every fetch of a loop but its first follows an expiry of its timer
TimersFired == SumIssued(Len(polls)) - Len(polls)

\* the 2000 ms timer fires: poll() runs again up to its await of getStatus
PollTimerFires(k) ==
  /\ k \in 1..Len(polls)
  /\ polls[k].pc = "timer"
  /\ polls' = [polls EXCEPT ![k].pc = "fetching", ![k].issued = @ + 1]
  /\ UNCHANGED <<navVars, fileVars, mapVars, statusVars, submits>>

\* the same, for at most MaxTimers expiries in a run
PollTimer(k) ==
  /\ TimersFired < MaxTimers
  /\ PollTimerFires(k)

\* onRetry of ProcessingStatus (the Retry button of a failed job)
OnRetry(fileType) ==
  /\ currentStep = "processing"
  /\ \E i \in 1..Len(jobStatuses) :
        jobStatuses[i].file_type = fileType /\ jobStatuses[i].status = "failed"
  /\ toast' = "Retry Not Implemented"
  /\ UNCHANGED <<currentStep, fileVars, mapVars, statusVars, submits, polls>>

\* onContinueToAnalysis of ProcessingStatus
OnContinueToAnalysis ==
  /\ currentStep = "complete"
  /\ overallStatus = "done"
  /\ toast' = "Analysis Coming Soon"
  /\ UNCHANGED <<currentStep, fileVars, mapVars, statusVars, submits, polls>>

Next ==
  \/ ContinueToUpload
  \/ BackToChecklist
  \/ \E name \in FileNames, fileType \in UploadTypes : HandleFileUpload(name, fileType)
  \/ \E t \in uploads : UploadFilesOk(t)
  \/ \E t \in uploads : \E d \in Detections(t.type) : DetectFieldsOk(t, d)
  \/ \E t \in uploads : UploadFailed(t)
  \/ HandleProceedToMapping
  \/ OnBack
  \/ \E ft \in FileTypes : \E c \in 1..Len(REQUIRED_FIELDS[ft]) :
       \E val \in getSourceOptions(uploadedFiles, ft) :
         SelectSource(ft, REQUIRED_FIELDS[ft][c], val)
  \/ HandleSubmit
  \/ \E i \in 1..Len(submits), ft \in FileTypes : SubmitMappingOk(i, ft)
  \/ \E i \in 1..Len(submits), ft \in FileTypes : SubmitMappingFailed(i, ft)
  \/ \E k \in 1..Len(polls), sid \in SessionIds : GetStatusOk(k, sid)
  \/ \E k \in 1..Len(polls) : GetStatusFailed(k)
  \/ \E k \in 1..Len(polls) : PollTimer(k)
  \/ \E ft \in FileTypes : OnRetry(ft)
  \/ OnContinueToAnalysis

Spec == Init /\ [][Next]_vars

\* ------------------------------------- SimpleMappingWizard as a component
\* The wizard mounted with props of its declared types: uploadedFiles with at
\* most one file per type, uploadId: string | null.  Its parent is
\* UploadWizard (onComplete, onBack).
PropsFile(id, type, status, suggestions) ==
  [ id |-> id, name |-> "data.csv", type |-> type, status |-> status,
    mappingSuggestions |-> suggestions ]

PropsClaimFiles ==
  { PropsFile(2, "claim", "completed", ClaimFull),
    PropsFile(2, "claim", "completed", << >>),
    PropsFile(2, "claim", "error", << >>) }

PropsFileLists ==
  { << >> }
    \cup { << PropsFile(1, "policy", "completed", d) >> : d \in Detections("policy") }
    \cup { << PropsFile(1, "policy", "completed", d), c >> :
             d \in Detections("policy"), c \in PropsClaimFiles }

InitMapping ==
  /\ currentStep = "mapping"
  /\ uploadedFiles \in PropsFileLists
  /\ uploadId \in {Null, ServerUploadId(1)}
  /\ jobStatuses = << >>
  /\ overallStatus = "pending"
  /\ toast = "none"
  /\ nextId = Len(uploadedFiles) + 1
  /\ uploads = {}
  /\ selections = initialSelections(uploadedFiles)
  /\ edits = 0
  /\ fieldMappings = NoFieldMappings
  /\ submits = << >>
  /\ polls = << >>

NextMapping ==
  \/ OnBack
  \/ \E ft \in FileTypes : \E c \in 1..Len(REQUIRED_FIELDS[ft]) :
       \E val \in getSourceOptions(uploadedFiles, ft) :
         SelectSource(ft, REQUIRED_FIELDS[ft][c], val)
  \/ HandleSubmit
  \/ \E i \in 1..Len(submits), ft \in FileTypes : SubmitMappingOk(i, ft)
  \/ \E i \in 1..Len(submits), ft \in FileTypes : SubmitMappingFailed(i, ft)

SpecMapping == InitMapping /\ [][NextMapping]_vars

\* ------------------------------------------- MappingWizard as a component
\* The grid wizard mounted with props of its declared types, its parent being
\* UploadWizard (onComplete, onBack).
PolicyPartial ==
  << Sugg("PolicyNo",  "policy_number",  998,  "string", 95),
     Sugg("StartDate", "effective_date", 1000, "date",   92) >>

PropsGridLists ==
  { << >>,
    << PropsFile(1, "policy", "completed", PolicyFull) >>,
    << PropsFile(1, "policy", "completed", PolicyDup) >>,
    << PropsFile(1, "policy", "completed", PolicyPartial) >>,
    << PropsFile(1, "policy", "completed", PolicyPartial),
       PropsFile(2, "policy", "completed", PolicyPartial) >>,
    << PropsFile(1, "policy", "completed", PolicyFull),
       PropsFile(2, "claim", "completed", ClaimFull) >>,
    << PropsFile(1, "policy", "completed", PolicyFull),
       PropsFile(2, "claim", "error", << >>) >>,
    << PropsFile(1, "policy", "completed", PolicyFull),
       PropsFile(2, "cancel", "completed", CancelFull) >> }

\* drop zones: one per row of the grid, keyed by the source field
DropTargets == { fieldMappings[i].sourceField : i \in 1..Len(fieldMappings) }

InitGrid ==
  /\ currentStep = "mapping"
  /\ uploadedFiles \in PropsGridLists
  /\ uploadId \in {Null, ServerUploadId(1)}
  /\ jobStatuses = << >>
  /\ overallStatus = "pending"
  /\ toast = "none"
  /\ nextId = Len(uploadedFiles) + 1
  /\ uploads = {}
  /\ selections = NoSelections
  /\ edits = 0
  /\ fieldMappings = initialFieldMappings(uploadedFiles, Len(uploadedFiles))
  /\ submits = << >>
  /\ polls = << >>

NextGrid ==
  \/ OnBack
  \/ \E activeId \in DraggedIds, overId \in DropTargets \cup {NoOver} :
       HandleDragEnd(activeId, overId)
  \/ \E sourceField \in DropTargets : RemoveMapping(sourceField)
  \/ MappingWizardHandleSubmit
  \/ \E i \in 1..Len(submits), ft \in FileTypes : SubmitMappingOk(i, ft)
  \/ \E i \in 1..Len(submits), ft \in FileTypes : SubmitMappingFailed(i, ft)

SpecGrid == InitGrid /\ [][NextGrid]_vars

\* ================================================================= claims
Last(seq) == seq[Len(seq)]
Front(seq) == SubSeq(seq, 1, Len(seq) - 1)

\* poll loop k handed Sessions[sid] to its observer in this step
Observed(k, sid) ==
  /\ k \in 1..Len(polls)
  /\ polls'[k].updates = Append(polls[k].updates, sid)

\* poll loop k had a getStatus call rejected in this step
FetchFailedIn(k) ==
  /\ k \in 1..Len(polls)
  /\ polls'[k].fetched = Append(polls[k].fetched, FetchError)

\* C1: as long as no fetch of a poll loop has failed, the observer has been
\* called once per fetch, in fetch order; the loop is resolved exactly when
\* the last session fetched is terminal (done or failed) and no earlier one
\* was, it resolved with that session after the observer saw it, and the
\* number of fetches issued is the number of results plus the one in flight.
C1_PollOf(p) ==
  (\A n \in 1..Len(p.fetched) : p.fetched[n] # FetchError) =>
    /\ p.updates = p.fetched
    /\ \A n \in 1..(Len(p.fetched) - 1) : ~IsTerminal(Sessions[p.fetched[n]])
    /\ p.pc \in {"fetching", "timer", "resolved"}
    /\ (p.pc = "resolved") <=>
         (Len(p.fetched) > 0 /\ IsTerminal(Sessions[Last(p.fetched)]))
    /\ p.pc = "resolved" =>
         /\ p.resolvedWith = Last(p.fetched)
         /\ p.updatesAtResolve = Len(p.fetched)
    /\ p.issued = Len(p.fetched) + (IF p.pc = "fetching" THEN 1 ELSE 0)

C1_PollResolvesAtFirstTerminal ==
  \A k \in 1..Len(polls) : C1_PollOf(polls[k])

\* a loop that resolved at its second fetch, the first being non-terminal
C1_Witness ==
  \E k \in 1..Len(polls) :
    /\ polls[k].pc = "resolved"
    /\ Len(polls[k].fetched) = 2
    /\ polls[k].updates = polls[k].fetched

\* C2: a failed fetch ends its poll loop for good (rejected, no later fetch,
\* no later observer call), and the step in which it fails changes none of
\* currentStep, jobStatuses, overallStatus and starts no poll loop.
C2_FailedLoopIsOver(p) ==
  (\E n \in 1..Len(p.fetched) : p.fetched[n] = FetchError) =>
    /\ p.pc = "rejected"
    /\ Last(p.fetched) = FetchError
    /\ p.updates = Front(p.fetched)
    /\ p.issued = Len(p.fetched)

C2_FetchFailureEndsPolling ==
  /\ [](\A k \in 1..Len(polls) : C2_FailedLoopIsOver(polls[k]))
  /\ [][ \A k \in 1..Len(polls) :
           /\ FetchFailedIn(k) =>
                /\ UNCHANGED <<currentStep, jobStatuses, overallStatus>>
                /\ Len(polls') = Len(polls)
           /\ polls[k].pc = "rejected" => polls'[k] = polls[k] ]_vars

\* a loop rejected at its second fetch, with the wizard showing the first
C2_Witness ==
  \E k \in 1..Len(polls) :
    /\ polls[k].pc = "rejected"
    /\ Len(polls[k].fetched) = 2
    /\ toast = "Status Check Failed"
    /\ currentStep = "processing"
    /\ overallStatus = "running"

\* C3: currentStep changes only along the six edges of the wizard.
StepEdges ==
  { <<"checklist", "upload">>, <<"upload", "mapping">>, <<"mapping", "processing">>,
    <<"processing", "complete">>, <<"mapping", "upload">>, <<"upload", "checklist">> }

StepEdge(from, to) == <<from, to>> \in StepEdges

C3_StepsFollowEdges ==
  [][ StepEdge(currentStep, currentStep') ]_currentStep

\* C4: from processing or complete the wizard never returns to checklist,
\* upload or mapping, and complete is never left.
C4_NoReturnAndCompleteAbsorbing ==
  [][ /\ currentStep \in {"processing", "complete"} =>
           currentStep' \in {"processing", "complete"}
      /\ currentStep = "complete" => currentStep' = "complete" ]_currentStep

\* C5: currentStep changes to complete only in a step in which a poll
\* observer is called with a session whose overall is done, and every such
\* call leaves currentStep = complete.
C5_CompleteOnlyByDoneObserver ==
  [][ /\ (currentStep' = "complete" /\ currentStep # "complete") =>
           \E k \in 1..Len(polls), sid \in SessionIds :
             Sessions[sid].overall = "done" /\ Observed(k, sid)
      /\ \A k \in 1..Len(polls), sid \in SessionIds :
           (Sessions[sid].overall = "done" /\ Observed(k, sid)) =>
             currentStep' = "complete" ]_vars

\* the wizard completed by a loop that saw running, then done
C5_Witness ==
  /\ currentStep = "complete"
  /\ overallStatus = "done"
  /\ \E k \in 1..Len(polls) :
       /\ Len(polls[k].updates) = 2
       /\ Sessions[Last(polls[k].updates)].overall = "done"

\* C6: an observer call with a failed session leaves currentStep as it is
\* (processing stays processing), sets jobStatuses and overallStatus to that
\* session and ends the loop, an ended loop never fetches again, and the
\* retry action changes nothing but the toast.
C6_FailedSessionKeepsStep ==
  [][ /\ \A k \in 1..Len(polls), sid \in SessionIds :
           (Sessions[sid].overall = "failed" /\ Observed(k, sid)) =>
             /\ currentStep' = currentStep
             /\ jobStatuses' = Sessions[sid].jobs
             /\ overallStatus' = "failed"
             /\ polls'[k].pc = "resolved"
      /\ \A k \in 1..Len(polls) :
           polls[k].pc = "resolved" => polls'[k] = polls[k]
      /\ (toast' = "Retry Not Implemented" /\ toast # "Retry Not Implemented") =>
           UNCHANGED <<currentStep, fileVars, mapVars, statusVars, submits, polls>>
    ]_vars

\* the failed session on display in the processing step, retry pressed
C6_Witness ==
  /\ currentStep = "processing"
  /\ overallStatus = "failed"
  /\ jobStatuses = Sessions[3].jobs
  /\ toast = "Retry Not Implemented"
  /\ \A k \in 1..Len(polls) : polls[k].pc = "resolved"

\* submit i completed in this step: its Promise.all resolved and its
\* continuation called onComplete
CompletedIn(i) ==
  /\ i \in 1..Len(submits')
  /\ submits'[i].state = "completed"
  /\ i \in 1..Len(submits) => submits[i].state = "awaiting"

\* C7: currentStep changes to processing, and a poll loop is started (its
\* first fetch issued), only in a step that completes a submit whose
\* validation found no error and whose requests all resolved; a poll loop
\* starts only in a step that leaves currentStep = processing.
C7_ProcessingOnlyAfterSubmit ==
  [][ /\ ((currentStep' = "processing" /\ currentStep # "processing")
            \/ Len(polls') > Len(polls)) =>
           \E i \in 1..Len(submits') :
             /\ CompletedIn(i)
             /\ Len(submits'[i].errors) = 0
             /\ \A ft \in DOMAIN submits'[i].requests : submits'[i].requests[ft] = "ok"
      /\ Len(polls') > Len(polls) =>
           /\ currentStep' = "processing"
           /\ polls' = Append(polls, NewPoll(Last(polls').uploadId))
      /\ \A k \in 1..Len(polls) : polls'[k].uploadId = polls[k].uploadId ]_vars

\* processing reached through a submit of two file types, its first fetch out
C7_Witness ==
  /\ currentStep = "processing"
  /\ Len(polls) = 1
  /\ polls[1].pc = "fetching"
  /\ \E i \in 1..Len(submits) :
       /\ submits[i].state = "completed"
       /\ DOMAIN submits[i].requests = {"policy", "claim"}

HasCompletedPolicy ==
  \E i \in 1..Len(uploadedFiles) :
    uploadedFiles[i].type = "policy" /\ uploadedFiles[i].status = "completed"

\* C8: currentStep changes to mapping only from upload and only when a
\* policy file with status completed is in uploadedFiles; a proceed that is
\* refused leaves currentStep = upload.
C8_MappingNeedsCompletedPolicy ==
  [][ /\ (currentStep' = "mapping" /\ currentStep # "mapping") =>
           (currentStep = "upload" /\ HasCompletedPolicy)
      /\ (toast' = "Missing required files" /\ toast # "Missing required files") =>
           (~HasCompletedPolicy /\ currentStep = "upload" /\ currentStep' = "upload")
      /\ (currentStep = "upload" /\ ~HasCompletedPolicy) => currentStep' # "mapping"
    ]_vars

\* the mapping step entered while the claim upload is still in flight
C8_Witness ==
  /\ currentStep = "mapping"
  /\ HasCompletedPolicy
  /\ \E i \in 1..Len(uploadedFiles) :
       uploadedFiles[i].type = "claim" /\ uploadedFiles[i].status = "processing"

\* C9: a submit is dispatched only from a mapping state for which validate
\* returns no error; a Submit refused by validation dispatches nothing and
\* leaves currentStep, the selections, the submits and the polls unchanged.
C9_NoDispatchFromInvalidState ==
  [][ /\ Len(submits') > Len(submits) =>
           /\ currentStep = "mapping"
           /\ Len(validate(uploadedFiles, selections)) = 0
           /\ Len(Last(submits').errors) = 0
      /\ (toast' = "Fix required mappings" /\ toast # "Fix required mappings") =>
           /\ Len(validate(uploadedFiles, selections)) > 0
           /\ UNCHANGED <<currentStep, fileVars, mapVars, statusVars, submits, polls>>
    ]_vars

\* Submit refused in a state with a duplicate source, nothing dispatched yet
C9_Witness ==
  /\ currentStep = "mapping"
  /\ toast = "Fix required mappings"
  /\ submits = << >>
  /\ \E n \in 1..Len(validate(uploadedFiles, selections)) :
       validate(uploadedFiles, selections)[n].kind = "duplicate"

\* C10: while uploadId is null no submit is dispatched, no poll loop starts
\* and currentStep does not become processing; a Submit refused for the
\* missing upload id leaves currentStep = mapping and changes nothing but the
\* toast.
C10_NoSubmitWithoutUploadId ==
  [][ /\ uploadId = Null =>
           (submits' = submits /\ polls' = polls /\ currentStep' # "processing")
      /\ (toast' = "Upload missing" /\ toast # "Upload missing") =>
           /\ uploadId = Null
           /\ currentStep = "mapping" /\ currentStep' = "mapping"
           /\ UNCHANGED <<fileVars, mapVars, statusVars, submits, polls>>
    ]_vars

\* Submit refused for the missing upload id in a state that passes validation
C10_Witness ==
  /\ toast = "Upload missing"
  /\ uploadId = Null
  /\ currentStep = "mapping"
  /\ HasCompletedPolicy
  /\ Len(validate(uploadedFiles, selections)) = 0
  /\ submits = << >>

\* file types with at least one mapped entry in the mounted wizard
MappedTypes ==
  { ft \in FileTypes :
      HasFile(uploadedFiles, ft) /\ Len(PickedValues(selections[ft])) > 0 }
  \cup { fieldMappings[i].fileType :
           i \in { j \in 1..Len(fieldMappings) : IsMapped(fieldMappings[j]) } }

\* C11: a Submit that dispatches sends one submitMapping request for each
\* file type with a mapped entry and none for the others, all of them out
\* before any response is handled; no request is added to a submit later;
\* and onComplete runs (the submit completes, a poll loop starts) only when
\* every request of the submit has resolved.
C11_OneRequestPerMappedType ==
  [][ /\ Len(submits') > Len(submits) =>
           /\ submits' = Append(submits, Last(submits'))
           /\ IF Last(submits').by = "SimpleMappingWizard"
                THEN validate(uploadedFiles, selections) = << >>
                ELSE getValidationStatus(uploadedFiles, fieldMappings).isValid
           /\ uploadId # Null
           /\ DOMAIN Last(submits').requests = MappedTypes
           /\ MappedTypes # {} =>
                /\ Last(submits').state = "awaiting"
                /\ \A ft \in MappedTypes : Last(submits').requests[ft] = "pending"
                /\ UNCHANGED <<currentStep, polls>>
      /\ \A i \in 1..Len(submits) :
           DOMAIN submits'[i].requests = DOMAIN submits[i].requests
      /\ \A i \in 1..Len(submits') :
           CompletedIn(i) =>
             \A ft \in DOMAIN submits'[i].requests : submits'[i].requests[ft] = "ok"
      /\ Len(polls') > Len(polls) => \E i \in 1..Len(submits') : CompletedIn(i)
    ]_vars

\* a submit of two file types, one request answered, the other still out
C11_Witness ==
  \E i \in 1..Len(submits) :
    /\ submits[i].state = "awaiting"
    /\ DOMAIN submits[i].requests = {"policy", "claim"}
    /\ submits[i].requests["policy"] = "ok"
    /\ submits[i].requests["claim"] = "pending"
    /\ polls = << >>

\* request ft of submit i was rejected in this step
RejectedIn(i, ft) ==
  /\ submits[i].requests[ft] = "pending"
  /\ submits'[i].requests[ft] = "rejected"

\* C12: a rejected request fails its submit for good: the submit is never
\* completed (onComplete is not called for it), the step of the rejection
\* leaves currentStep, the polls, the mapping state and the files as they
\* are and sends nothing (no new submit, the other requests of the submit
\* untouched), and the error shown is that of the first request rejected.
C12_RejectionFailsWholeSubmit ==
  [][ \A i \in 1..Len(submits) :
        /\ \A ft \in DOMAIN submits[i].requests :
             RejectedIn(i, ft) =>
               /\ submits'[i].state = "failed"
               /\ UNCHANGED <<currentStep, polls, mapVars, fileVars, statusVars>>
               /\ Len(submits') = Len(submits)
               /\ \A j \in 1..Len(submits) : j # i => submits'[j] = submits[j]
               /\ \A other \in DOMAIN submits[i].requests \ {ft} :
                    submits'[i].requests[other] = submits[i].requests[other]
               /\ submits[i].state = "awaiting" =>
                    (submits'[i].error = ft /\ toast' = "Submission failed")
        /\ submits[i].state = "failed" =>
             /\ submits'[i].state = "failed"
             /\ submits'[i].error = submits[i].error
    ]_vars

\* the claim request rejected first, the policy request rejected after it,
\* the wizard still in the mapping step
C12_Witness ==
  \E i \in 1..Len(submits) :
    /\ submits[i].state = "failed"
    /\ DOMAIN submits[i].requests = {"policy", "claim"}
    /\ submits[i].requests["policy"] = "rejected"
    /\ submits[i].requests["claim"] = "rejected"
    /\ submits[i].error = "claim"
    /\ currentStep = "mapping"
    /\ polls = << >>

\* C13: the payloads of a submit are built from the mapping state of the step
\* in which Submit was invoked and never change afterwards, and the flattened
\* mapping passed to onComplete is the flattening of those payloads (dropdown
\* wizard) or the one built in that same step (grid wizard), whatever edits
\* were made in between.
C13_SubmitUsesSnapshot ==
  [][ /\ Len(submits') > Len(submits) =>
           LET s == Last(submits')
           IN  IF s.by = "SimpleMappingWizard"
                 THEN s.grouped = grouped(uploadedFiles, selections)
                 ELSE /\ s.grouped = groupedMappings(fieldMappings)
                      /\ s.finalMappings = FinalInto(fieldMappings, Len(fieldMappings))
      /\ \A i \in 1..Len(submits) :
           /\ submits'[i].grouped = submits[i].grouped
           /\ submits'[i].uploadId = submits[i].uploadId
           /\ submits[i].by = "MappingWizard" =>
                submits'[i].finalMappings = submits[i].finalMappings
      /\ \A i \in 1..Len(submits') :
           (CompletedIn(i) /\ submits'[i].by = "SimpleMappingWizard") =>
             submits'[i].finalMappings = finalMappings(submits'[i].grouped)
    ]_vars

\* the first submit completed with the mapping it was invoked on, after an
\* edit made while it was in flight went into a second submit
C13_Witness ==
  /\ Len(submits) = 2
  /\ submits[1].state = "completed"
  /\ submits[2].grouped # submits[1].grouped
  /\ submits[1].finalMappings = finalMappings(submits[1].grouped)
  /\ submits[1].finalMappings # finalMappings(submits[2].grouped)

\* C14: every entry of a payload sent for file type T is a mapping of T held
\* by the wizard when Submit was invoked, with a non-null canonical field and
\* a non-empty source; no entry stands for a mapping whose canonical field is
\* null or whose file type is another one.
C14_PayloadEntriesFromOwnType ==
  [][ Len(submits') > Len(submits) =>
        LET s == Last(submits')
        IN  \A ft \in DOMAIN s.requests :
              \A n \in 1..Len(s.grouped[ft]) :
                LET e == s.grouped[ft][n]
                IN  /\ e.canonical_field # NullString
                    /\ ~Falsy(e.source)
                    /\ IF s.by = "SimpleMappingWizard"
                         THEN \E p \in 1..Len(selections[ft]) :
                                /\ selections[ft][p].canonical = e.canonical_field
                                /\ selections[ft][p].source = e.source
                         ELSE \E m \in 1..Len(fieldMappings) :
                                /\ fieldMappings[m].fileType = ft
                                /\ fieldMappings[m].sourceField = e.source
                                /\ fieldMappings[m].canonicalField = e.canonical_field
    ]_vars

\* a grid submit in flight for a policy and a cancel file, with an unmapped
\* policy column that is in no payload
C14_Witness ==
  /\ Len(submits) = 1
  /\ submits[1].by = "MappingWizard"
  /\ DOMAIN submits[1].requests = {"policy", "cancel"}
  /\ \E m \in 1..Len(fieldMappings) :
       /\ fieldMappings[m].fileType = "policy"
       /\ fieldMappings[m].canonicalField = NullString
       /\ \A n \in 1..Len(submits[1].grouped["policy"]) :
            submits[1].grouped["policy"][n].source # fieldMappings[m].sourceField

\* C15: in every payload dispatched for a file type, each required canonical
\* field of the type is the target of exactly one source field and no
\* canonical field is the target of two.
C15_PayloadHoldsEachRequiredOnce ==
  [][ Len(submits') > Len(submits) =>
        LET s == Last(submits')
        IN  \A ft \in DOMAIN s.requests :
              /\ \A r \in 1..Len(requiredFields[ft]) :
                   Cardinality({ n \in 1..Len(s.grouped[ft]) :
                       s.grouped[ft][n].canonical_field = requiredFields[ft][r] }) = 1
              /\ \A n1, n2 \in 1..Len(s.grouped[ft]) :
                   s.grouped[ft][n1].canonical_field = s.grouped[ft][n2].canonical_field
                     => n1 = n2
    ]_vars

\* mappings of a file type that hold a canonical field
HoldersOf(fm, ft, c) ==
  { i \in 1..Len(fm) : fm[i].fileType = ft /\ fm[i].canonicalField = c }

\* how many times a message occurs in a list
Count(seq, msg) == Cardinality({ n \in 1..Len(seq) : seq[n] = msg })

FilesOfType(files, ft) == { f \in 1..Len(files) : files[f].type = ft }

\* C16: getValidationStatus returns isValid = true exactly when every
\* required canonical field of every uploaded file's type is held by exactly
\* one mapping of that type and no (fileType, canonicalField) pair with a
\* non-null canonical field is held by two mappings.
C16_ValidIffRequiredOnceAndNoDuplicate ==
  getValidationStatus(uploadedFiles, fieldMappings).isValid <=>
    /\ \A f \in 1..Len(uploadedFiles) :
         \A r \in 1..Len(requiredFields[uploadedFiles[f].type]) :
           Cardinality(HoldersOf(fieldMappings, uploadedFiles[f].type,
                                 requiredFields[uploadedFiles[f].type][r])) = 1
    /\ \A i, j \in 1..Len(fieldMappings) :
         ( /\ fieldMappings[i].canonicalField # NullString
           /\ fieldMappings[i].fileType = fieldMappings[j].fileType
           /\ fieldMappings[i].canonicalField = fieldMappings[j].canonicalField )
         => i = j

\* a table made valid again by two edits and submitted
C16_Witness ==
  /\ currentStep = "mapping"
  /\ edits = 2
  /\ getValidationStatus(uploadedFiles, fieldMappings).isValid
  /\ \E m \in 1..Len(fieldMappings) : fieldMappings[m].canonicalField = NullString
  /\ Len(submits) = 1

\* C17: the errors hold "Required field ... not mapped" once for every pair
\* (uploaded file, required field of its type) that no mapping of the type
\* holds, and never for a held field or for a type without a file; so the
\* errors are non-empty and isValid is false whenever such a pair exists, and
\* a policy file with only policy_number and effective_date mapped gives
\* exactly 3 errors.
C17_OneErrorPerUnheldRequiredField ==
  LET status == getValidationStatus(uploadedFiles, fieldMappings)
  IN  /\ \A ft \in FileTypes : \A r \in 1..Len(requiredFields[ft]) :
           Count(status.errors, RequiredMessage(requiredFields[ft][r], ft)) =
             IF HoldersOf(fieldMappings, ft, requiredFields[ft][r]) = {}
               THEN Cardinality(FilesOfType(uploadedFiles, ft))
               ELSE 0
      /\ (\E f \in 1..Len(uploadedFiles) :
            \E r \in 1..Len(requiredFields[uploadedFiles[f].type]) :
              HoldersOf(fieldMappings, uploadedFiles[f].type,
                        requiredFields[uploadedFiles[f].type][r]) = {})
           => (Len(status.errors) > 0 /\ ~status.isValid)
      /\ ( /\ Len(uploadedFiles) = 1
           /\ uploadedFiles[1].type = "policy"
           /\ { fieldMappings[i].canonicalField : i \in 1..Len(fieldMappings) }
                = {"policy_number", "effective_date"}
           /\ Len(fieldMappings) = 2 )
           => (Len(status.errors) = 3 /\ ~status.isValid)

\* Submit refused for a policy file with only policy_number and
\* effective_date mapped: three errors
C17_Witness ==
  /\ toast = "Validation Failed"
  /\ Len(uploadedFiles) = 1
  /\ uploadedFiles[1].type = "policy"
  /\ { fieldMappings[i].canonicalField : i \in 1..Len(fieldMappings) }
       = {"policy_number", "effective_date"}
  /\ Len(getValidationStatus(uploadedFiles, fieldMappings).errors) = 3
  /\ Count(getValidationStatus(uploadedFiles, fieldMappings).errors,
           "Required field \"product_type\" not mapped in policy file") = 1

\* C18: a (fileType, canonicalField) pair with a non-null canonical field
\* held by k >= 1 mappings gives exactly k - 1 errors "Duplicate mapping
\* detected: <fileType>_<canonicalField>", and there is no other duplicate
\* error.
C18_DuplicateErrorPerExtraHolder ==
  LET status == getValidationStatus(uploadedFiles, fieldMappings)
      held == { <<fieldMappings[i].fileType, fieldMappings[i].canonicalField>> :
                  i \in { j \in 1..Len(fieldMappings) :
                            fieldMappings[j].canonicalField # NullString } }
      messages == { DuplicateMessage(pair[1] \o "_" \o pair[2]) : pair \in held }
  IN  /\ \A pair \in held :
           Count(status.errors, DuplicateMessage(pair[1] \o "_" \o pair[2])) =
             Cardinality(HoldersOf(fieldMappings, pair[1], pair[2])) - 1
      /\ \A n \in 1..Len(status.errors) :
           (\E ft \in FileTypes : \E r \in 1..Len(requiredFields[ft]) :
              status.errors[n] = RequiredMessage(requiredFields[ft][r], ft))
           \/ status.errors[n] \in messages

\* three mappings on policy/policy_number: the duplicate error is there twice
C18_Witness ==
  /\ Cardinality(HoldersOf(fieldMappings, "policy", "policy_number")) = 3
  /\ Count(getValidationStatus(uploadedFiles, fieldMappings).errors,
           "Duplicate mapping detected: policy_policy_number") = 2

\* C19: the warnings are, in table order, one "Low confidence mapping" per
\* mapping with a non-null canonical field and confidence below 0.7 (70
\* hundredths) and nothing else; no warning is among the errors, and isValid
\* is errors = << >> whatever the warnings are.
C19_WarningPerLowConfidenceMapping ==
  LET status == getValidationStatus(uploadedFiles, fieldMappings)
      low == SelectSeq(fieldMappings,
                       LAMBDA m : m.canonicalField # NullString /\ m.confidence < 70)
  IN  /\ status.warnings = [ i \in 1..Len(low) |-> WarningMessage(low[i]) ]
      /\ \A i \in 1..Len(fieldMappings) :
           Count(status.errors, WarningMessage(fieldMappings[i])) = 0
      /\ status.isValid = (status.errors = << >>)

\* a mapped column at confidence 0.65 and one at exactly 0.70: one warning,
\* no error, and the submit went out
C19_Witness ==
  /\ Len(getValidationStatus(uploadedFiles, fieldMappings).warnings) = 1
  /\ getValidationStatus(uploadedFiles, fieldMappings).isValid
  /\ \E i, j \in 1..Len(fieldMappings) :
       /\ fieldMappings[i].confidence = 65 /\ fieldMappings[i].canonicalField # NullString
       /\ fieldMappings[j].confidence = 70 /\ fieldMappings[j].canonicalField # NullString
  /\ Len(submits) = 1

\* C20: assigning twice with the same arguments gives the same mapping state
\* as assigning once (and so the same validation result, which is a function
\* of the files and the mapping state): for the grid (handleDragEnd) from the
\* current table, for every pill and every row; for the dropdown
\* (onValueChange) from the current selections, for every canonical field and
\* every option.
C20_AssignIsIdempotent ==
  /\ \A target \in { fieldMappings[i].sourceField : i \in 1..Len(fieldMappings) } :
       \A p \in 1..Len(allCanonicalFields) :
         LET once == Assign(fieldMappings, target, allCanonicalFields[p].name)
         IN  Assign(once, target, allCanonicalFields[p].name) = once
  /\ \A ft \in FileTypes :
       \A c \in 1..Len(REQUIRED_FIELDS[ft]) :
         \A v \in getSourceOptions(uploadedFiles, ft) :
           LET once == PutPick(selections[ft], REQUIRED_FIELDS[ft][c], v)
           IN  PutPick(once, REQUIRED_FIELDS[ft][c], v) = once

\* the same pill dropped twice on the same row of the initial table
C20_Witness ==
  /\ edits = 2
  /\ toast = "Field mapped"
  /\ \E target \in { fieldMappings[i].sourceField : i \in 1..Len(fieldMappings) } :
       \E p \in 1..Len(allCanonicalFields) :
         LET init == initialFieldMappings(uploadedFiles, Len(uploadedFiles))
         IN  /\ fieldMappings = Assign(init, target, allCanonicalFields[p].name)
             /\ fieldMappings # init

\* the reduction of a session's jobs: done iff every job is done, failed iff
\* some job failed, running otherwise
AllJobsDone(jobs) == \A n \in 1..Len(jobs) : jobs[n].status = "done"
SomeJobFailed(jobs) == \E n \in 1..Len(jobs) : jobs[n].status = "failed"

ChangedRows ==
  { i \in 1..Len(fieldMappings) : fieldMappings'[i] # fieldMappings[i] }

\* (file type, canonical field) keys of the dropdown table whose pick a step changed
ChangedPicks ==
  { <<ft, n>> \in FileTypes \X (1..6) :
      /\ n <= Len(REQUIRED_FIELDS[ft])
      /\ Picked(selections'[ft], REQUIRED_FIELDS[ft][n])
           # Picked(selections[ft], REQUIRED_FIELDS[ft][n]) }

\* C21: while a mapping wizard is shown, an assignment or removal changes
\* the canonical field of the one mapping identified by (file type, source
\* field) and nothing else: every changed row of the grid has the same file
\* type and source field and differs in canonicalField only, so a mapping
\* with the same source field name in another file type keeps its value, and
\* a selection of the dropdown changes the pick of one (file type, canonical
\* field) key only.
C21_AssignChangesOneMapping ==
  [][ (currentStep = "mapping" /\ currentStep' = "mapping") =>
        /\ Len(fieldMappings') = Len(fieldMappings)
        /\ \A i, j \in ChangedRows :
             /\ fieldMappings[i].fileType = fieldMappings[j].fileType
             /\ fieldMappings[i].sourceField = fieldMappings[j].sourceField
        /\ \A i \in ChangedRows :
             fieldMappings'[i] =
               [fieldMappings[i] EXCEPT !.canonicalField = fieldMappings'[i].canonicalField]
        /\ Cardinality(ChangedPicks) <= 1 ]_vars

\* C26: once uploadId is set it never changes: the first successful upload
\* sets it and no later upload, whether started before or after the first
\* one completed, replaces it, so every later submitMapping and getStatus
\* call carries the first upload's id.
C26_UploadIdSetOnce ==
  [][ uploadId # Null => uploadId' = uploadId ]_vars

\* poll loops with a getStatus call or a timer outstanding
ActivePolls == { k \in 1..Len(polls) : polls[k].pc \in {"fetching", "timer"} }

\* C27: at most one pollStatus loop runs in a wizard session, also when
\* Submit is invoked again while an earlier submit is in flight: at any
\* moment at most one loop has a getStatus call or a timer outstanding.
C27_AtMostOnePollLoop ==
  Cardinality(ActivePolls) <= 1

\* C28: whenever currentStep = complete, overallStatus is done and
\* jobStatuses are the jobs of a session that reported done; no later poll
\* callback replaces them with those of a session that is not done.
C28_CompleteShowsDoneSession ==
  currentStep = "complete" =>
    /\ overallStatus = "done"
    /\ \E sid \in SessionIds :
         Sessions[sid].overall = "done" /\ jobStatuses = Sessions[sid].jobs

\* the file with a given id, when the list holds one
HasId(files, id) == \E i \in 1..Len(files) : files[i].id = id
FileOfId(files, id) == files[CHOOSE i \in 1..Len(files) : files[i].id = id]

\* the upload task of the file with this id is running
HasTask(tasks, id) == \E t \in tasks : t.id = id

StatusMoves ==
  { <<"pending", "processing">>, <<"processing", "completed">>, <<"processing", "error">> }

\* C29: the status of a file moves only pending -> processing -> completed
\* or error. A file becomes completed only in the step in which detectFields
\* of its own upload resolves (uploadFiles having resolved before), and its
\* mappingSuggestions become the detection result in that step and change in
\* no other; detectFields is called only by an upload whose uploadFiles
\* resolved; an upload that ends after uploadFiles failed leaves its file in
\* error, and a file in error never becomes completed; an upload that ends
\* after its file was replaced changes no file of the list.
C29_FileStatusLifecycle ==
  [][ /\ \A i \in 1..Len(uploadedFiles) :
           LET f == uploadedFiles[i]
           IN  HasId(uploadedFiles', f.id) =>
                 LET g == FileOfId(uploadedFiles', f.id)
                 IN  /\ g.status = f.status \/ <<f.status, g.status>> \in StatusMoves
                     /\ g.status = f.status => g = f
                     /\ (g.status = "completed" /\ f.status # "completed") =>
                          /\ \E t \in uploads :
                               t.id = f.id /\ t.pc = "detectFields" /\ ~HasTask(uploads', f.id)
                          /\ g = [f EXCEPT !.status = "completed",
                                           !.mappingSuggestions = g.mappingSuggestions]
                          /\ g.mappingSuggestions \in Detections(f.type)
                     /\ (g.status = "error" /\ f.status # "error") =>
                          /\ \E t \in uploads : t.id = f.id /\ ~HasTask(uploads', f.id)
                          /\ g = [f EXCEPT !.status = "error"]
      /\ \A i \in 1..Len(uploadedFiles') :
           LET g == uploadedFiles'[i]
           IN  ~HasId(uploadedFiles, g.id) =>
                 g.status \in {"pending", "processing"} /\ g.mappingSuggestions = << >>
      /\ \A t \in uploads :
           /\ \A u \in uploads' :
                (u.id = t.id /\ u # t) => (t.pc = "uploadFiles" /\ u.pc = "detectFields")
           /\ ~HasTask(uploads', t.id) =>
                IF HasId(uploadedFiles, t.id)
                  THEN /\ HasId(uploadedFiles', t.id)
                       /\ FileOfId(uploadedFiles', t.id).status \in {"completed", "error"}
                       /\ t.pc = "uploadFiles" =>
                            FileOfId(uploadedFiles', t.id).status = "error"
                  ELSE uploadedFiles' = uploadedFiles ]_vars

\* the upload of the first policy file ended after a second policy file had
\* replaced it; the second one completed with its detections, and a claim
\* upload would be the third file
C29_Witness ==
  /\ uploads = {}
  /\ nextId = 3
  /\ Len(uploadedFiles) = 1
  /\ uploadedFiles[1].id = 2
  /\ uploadedFiles[1].status = "completed"
  /\ uploadedFiles[1].mappingSuggestions = PolicyFull

\* C30: after any sequence of uploads, re-uploads of a type included, with
\* uploads in flight or failed, uploadedFiles holds at most one file of each
\* file type.
C30_OneFilePerType ==
  \A ft \in FileTypes :
    Cardinality({ i \in 1..Len(uploadedFiles) : uploadedFiles[i].type = ft }) <= 1

\* a second file of a type replaced the first while the first upload was
\* still in flight
C30_Witness ==
  /\ Len(uploadedFiles) = 1
  /\ uploadedFiles[1].id = 2
  /\ \E t \in uploads : t.id = 1 /\ t.type = uploadedFiles[1].type

\* the picks of one file type in which the n-th required field has source f[n]
PicksOf(ft, f) ==
  [ n \in 1..Len(REQUIRED_FIELDS[ft]) |->
      [canonical |-> REQUIRED_FIELDS[ft][n], source |-> f[n]] ]

\* some choice of offered sources for the required fields of every uploaded
\* file passes validate()
SomeSelectionsValid(files) ==
  \A ft \in FileTypes :
    HasFile(files, ft) =>
      \E f \in [1..Len(REQUIRED_FIELDS[ft]) -> getSourceOptions(files, ft)] :
        ValidateType(files, [NoSelections EXCEPT ![ft] = PicksOf(ft, f)], ft) = << >>

\* C25: only the policy file is required: whenever the wizard is in the
\* mapping step, some selections of the sources the dropdowns offer make
\* validation pass, so that Submit dispatches, whatever the status (absent,
\* pending, processing, completed, error) of the claim and cancel uploads.
C25_PolicyAloneSuffices ==
  currentStep = "mapping" => SomeSelectionsValid(uploadedFiles)

\* ------------------------------------------- both mapping wizards side by side
\* the two mapping wizards mounted with the same props: the dropdown wizard
\* builds selections, the grid wizard builds fieldMappings
InitBoth ==
  /\ currentStep = "mapping"
  /\ uploadedFiles \in PropsGridLists
  /\ uploadId \in {Null, ServerUploadId(1)}
  /\ jobStatuses = << >>
  /\ overallStatus = "pending"
  /\ toast = "none"
  /\ nextId = Len(uploadedFiles) + 1
  /\ uploads = {}
  /\ selections = initialSelections(uploadedFiles)
  /\ edits = 0
  /\ fieldMappings = initialFieldMappings(uploadedFiles, Len(uploadedFiles))
  /\ submits = << >>
  /\ polls = << >>

\* the same assignment made in both wizards: the dropdown of (ft, canonical)
\* is set to val; in the grid the X of the source that held the field is
\* pressed (removeMapping) and the pill is dropped on val (handleDragEnd)
AssignInBoth(ft, canonical, val) ==
  /\ currentStep = "mapping"
  /\ edits < MaxGridEdits
  /\ HasFile(uploadedFiles, ft)
  /\ val \in getSourceOptions(uploadedFiles, ft) \ disabledSet(selections[ft], canonical)
  /\ selections' = [selections EXCEPT ![ft] = PutPick(@, canonical, val)]
  /\ fieldMappings' =
       LET old == Picked(selections[ft], canonical)
           freed == IF Falsy(old) THEN fieldMappings ELSE Unassign(fieldMappings, old)
       IN  Assign(freed, val, canonical)
  /\ edits' = edits + 1
  /\ UNCHANGED <<navVars, fileVars, statusVars, submits, polls>>

NextBoth ==
  \/ OnBack
  \/ \E ft \in FileTypes : \E c \in 1..Len(REQUIRED_FIELDS[ft]) :
       \E val \in getSourceOptions(uploadedFiles, ft) :
         AssignInBoth(ft, REQUIRED_FIELDS[ft][c], val)

SpecBoth == InitBoth /\ [][NextBoth]_vars

\* the entries of a payload that map a required field of the file type
RequiredEntries(payload, ft) ==
  { payload[i] : i \in { j \in 1..Len(payload) :
                           Includes(REQUIRED_FIELDS[ft], payload[j].canonical_field) } }

PayloadOf(g, ft) == IF ft \in DOMAIN g THEN g[ft] ELSE << >>

\* C24: the grid and the dropdown wizard, started from the same files and
\* suggestions and after the same assignments of source fields to required
\* canonical fields, agree on submittability: validate() returns no errors
\* exactly when getValidationStatus().isValid is true, and both then submit
\* the same payload entries for the required fields of every file type.
C24_WizardsAgree ==
  currentStep = "mapping" =>
    LET ok == validate(uploadedFiles, selections) = << >>
    IN  /\ ok <=> getValidationStatus(uploadedFiles, fieldMappings).isValid
        /\ ok => \A ft \in FileTypes :
             RequiredEntries(PayloadOf(grouped(uploadedFiles, selections), ft), ft)
               = RequiredEntries(PayloadOf(groupedMappings(fieldMappings), ft), ft)

\* ------------------------------------------------ pollStatus under fairness
\* the server returns a terminal session at the latest to this fetch of a loop
MaxPollFetches == 3

\* the processing step right after startStatusPolling(uploadId), called
\* once, or twice after two submits
InitPoll ==
  /\ currentStep = "processing"
  /\ uploadedFiles = << PropsFile(1, "policy", "completed", PolicyFull) >>
  /\ uploadId = ServerUploadId(1)
  /\ jobStatuses = << >>
  /\ overallStatus = "pending"
  /\ toast = "Mappings Saved"
  /\ nextId = 2
  /\ uploads = {}
  /\ selections = NoSelections
  /\ edits = 0
  /\ fieldMappings = NoFieldMappings
  /\ submits = << >>
  /\ polls \in { << NewPoll(uploadId) >>, << NewPoll(uploadId), NewPoll(uploadId) >> }

\* getStatus resolved, answered by a server that reaches a terminal session
\* within MaxPollFetches fetches of the loop
GetStatusOkInTime(k, sid) ==
  /\ k \in 1..Len(polls)
  /\ polls[k].issued >= MaxPollFetches => IsTerminal(Sessions[sid])
  /\ GetStatusOk(k, sid)

\* the getStatus call of loop k settles, one way or the other
FetchCompletes(k) ==
  \/ \E sid \in SessionIds : GetStatusOkInTime(k, sid)
  \/ GetStatusFailed(k)

NextPoll ==
  \/ \E k \in 1..Len(polls), sid \in SessionIds : GetStatusOkInTime(k, sid)
  \/ \E k \in 1..Len(polls) : GetStatusFailed(k)
  \/ \E k \in 1..Len(polls) : PollTimerFires(k)
  \/ \E ft \in FileTypes : OnRetry(ft)
  \/ OnContinueToAnalysis

\* an armed timer fires and an issued fetch settles
SpecPollFair ==
  /\ InitPoll
  /\ [][NextPoll]_vars
  /\ \A k \in 1..2 : WF_vars(PollTimerFires(k)) /\ WF_vars(FetchCompletes(k))

\* no getStatus call of loop k has failed
NoFetchFailed(k) ==
  k \in 1..Len(polls) =>
    \A n \in 1..Len(polls[k].fetched) : polls[k].fetched[n] # FetchError

\* loop k resolved with the first terminal session it fetched
ResolvedWithFirstTerminal(k) ==
  k \in 1..Len(polls) =>
    /\ polls[k].pc = "resolved"
    /\ polls[k].resolvedWith = Last(polls[k].fetched)
    /\ IsTerminal(Sessions[polls[k].resolvedWith])
    /\ \A n \in 1..(Len(polls[k].fetched) - 1) :
         ~IsTerminal(Sessions[polls[k].fetched[n]])

\* loop k is running before the step
Running(k) == k \in 1..Len(polls) /\ polls[k].pc \in {"fetching", "timer"}

\* C23: when no getStatus call of a poll loop fails and the server comes to
\* return a terminal session, then, timers firing and fetches settling, the
\* loop eventually resolves with the first terminal session it fetched; and a
\* running loop stops only in a step in which its own fetch returns a terminal
\* session or fails: without either it keeps running, and no operation of the
\* wizard stops it or removes it.
C23_PollEventuallyResolves ==
  /\ \A k \in 1..2 : ([]NoFetchFailed(k)) => <>ResolvedWithFirstTerminal(k)
  /\ [][ \A k \in 1..2 :
           Running(k) =>
             /\ Len(polls') >= Len(polls)
             /\ \/ polls'[k].pc \in {"fetching", "timer"}
                \/ \E sid \in SessionIds : IsTerminal(Sessions[sid]) /\ Observed(k, sid)
                \/ FetchFailedIn(k) ]_vars

\* a loop that resolved at its last fetch after two timers
C23_Witness ==
  \E k \in 1..Len(polls) :
    /\ polls[k].pc = "resolved"
    /\ Len(polls[k].fetched) = MaxPollFetches
    /\ polls[k].issued = MaxPollFetches

====
